---- MODULE Spec2Model ----
(***************************************************************************)
(* The contact form of src/components/contact/ContactForm.tsx: the field   *)
(* state, the ordered validation, the 60 s resubmission cooldown, the      *)
(* cooldown interval and the asynchronous submission through the           *)
(* useWeb3Forms hook.                                                      *)
(*                                                                         *)
(* The operations are the component's handlers (handleInputChange,         *)
(* handleSubmit and its continuation after the await, resetForm, the       *)
(* interval callback).  Each is an action that may be called in any state: *)
(* the `disabled` attributes of the rendered buttons are modelled as the   *)
(* predicates SubmitButtonDisabled and ResetButtonDisabled, they are not   *)
(* guards of the handlers, because the handlers themselves do not test     *)
(* them.                                                                   *)
(*                                                                         *)
(* Strings are tuples of one-character strings so that trim() and the      *)
(* e-mail pattern are computed character by character.                     *)
(***************************************************************************)
EXTENDS Integers, Sequences, FiniteSets, Bags

VARIABLES
    formData,            \* useState<FormData>, line 9
    lastSubmissionTime,  \* useState<number | null>, line 16; null is modelled as 0
    cooldownSeconds,     \* useState(0), line 17
    formError,           \* useState<FormError | null>, line 18: <<>> is null, <<e>> an error
    isSubmitting,        \* from the hook, line 20
    isSuccess,           \* from the hook, line 20
    apiKey,              \* import.meta.env.VITE_WEB3FORMS_KEY, lines 21 and 100
    pending,             \* the submit() calls in flight: a bag of calls, each
                         \* with its payload and the instant it was made
    interval,            \* the active timers of setInterval, lines 44-58
    now,                 \* Date.now()
    mounted,             \* whether the component is mounted
    succeededCallTime    \* history: the instant at which the call that last
                         \* succeeded had been made (0: none yet)

vars == <<formData, lastSubmissionTime, cooldownSeconds, formError,
          isSubmitting, isSuccess, apiKey, pending, interval, now, mounted,
          succeededCallTime>>

----------------------------------------------------------------------------
(* Bounds and constants *)

\* At most this many submit() calls are in flight at once in the model.
MaxPending == 2

\* const COOLDOWN_PERIOD = 60000;
COOLDOWN_PERIOD == 60000

\* The period of the setInterval, and the divisor of the remaining seconds.
TICK_MS == 1000

\* The instants Date.now() takes in the model (ms).  Their differences cover
\* 0, 1000, 59000, 59999, 60000, 60001 and 120000 ms.
Times == {100000, 101000, 159999, 160000, 220000}

\* Characters: a blank, the two the e-mail pattern names, and ordinary ones.
Whitespace == {" "}

EMPTY == <<>>
BLANK == <<" ">>
FOO == <<"f", "o", "o">>
GOOD_EMAIL == <<"a", "@", "b", ".", "c", "o">>

BAR == <<"b", "a", "r">>
PADDED == <<" ", "x", " ">>
SPACED_EMAIL == <<"a", " ", "@", "b", ".", "c">>
NO_TLD == <<"a", "@", "b">>

Fields == {"name", "email", "phone", "message"}

\* The values a user types into each field (e.target.value of its onChange).
FieldValues(f) ==
    CASE f = "name" -> {EMPTY, BLANK, FOO}
      [] f = "email" -> {EMPTY, FOO, GOOD_EMAIL}
      [] f = "phone" -> {EMPTY, FOO}
      [] f = "message" -> {EMPTY, FOO, BAR}

\* The wider set of values the validation is exercised on.
AllValues == {EMPTY, BLANK, FOO, GOOD_EMAIL, PADDED, SPACED_EMAIL, NO_TLD}

\* { name: '', email: '', phone: '', message: '' }
EmptyForm == [f \in Fields |-> EMPTY]

----------------------------------------------------------------------------
(* Pure functions *)

\* String.prototype.trim
RECURSIVE TrimLeft(_)
TrimLeft(s) ==
    IF s # <<>> /\ Head(s) \in Whitespace THEN TrimLeft(Tail(s)) ELSE s

RECURSIVE TrimRight(_)
TrimRight(s) ==
    IF s # <<>> /\ s[Len(s)] \in Whitespace
    THEN TrimRight(SubSeq(s, 1, Len(s) - 1))
    ELSE s

Trim(s) == TrimRight(TrimLeft(s))

\* !s.trim()
IsBlank(s) == Trim(s) = <<>>

\* [^\s@]
EmailChar(c) == c \notin Whitespace /\ c # "@"

\* /^[^\s@]+@[^\s@]+\.[^\s@]+$/.test(s)
EmailPattern(s) ==
    \E i \in 1..Len(s), j \in 1..Len(s) :
        /\ s[i] = "@"
        /\ s[j] = "."
        /\ 1 < i
        /\ i + 1 < j
        /\ j < Len(s)
        /\ \A k \in (1..Len(s)) \ {i} : EmailChar(s[k])

\* Math.ceil(x / 1000) for an integer x
CeilSeconds(x) == -((-x) \div TICK_MS)

Max(a, b) == IF a >= b THEN a ELSE b

\* Math.max(0, Math.ceil((COOLDOWN_PERIOD - (Date.now() - last)) / 1000))
Remaining(last, t) == Max(0, CeilSeconds(COOLDOWN_PERIOD - (t - last)))

\* FormError values
FieldError(f, m) == [field |-> f, message |-> <<m>>]
CooldownError(n) == [field |-> "undefined", message |-> <<"CooldownActive", n>>]
FailedError == [field |-> "undefined", message |-> <<"SubmissionFailed">>]

\* ValidationError with the phone rule placed before the e-mail rules.
ValidationErrorPhoneFirst(fd) ==
    IF IsBlank(fd["name"]) THEN <<FieldError("name", "EmptyName")>>
    ELSE IF IsBlank(fd["phone"]) THEN <<FieldError("phone", "EmptyPhone")>>
    ELSE IF IsBlank(fd["email"]) THEN <<FieldError("email", "EmptyEmail")>>
    ELSE IF ~EmailPattern(fd["email"]) THEN <<FieldError("email", "InvalidEmail")>>
    ELSE IF IsBlank(fd["message"]) THEN <<FieldError("message", "EmptyMessage")>>
    ELSE <<>>

\* The error validateForm sets, <<>> when every rule passes.
ValidationError(fd) ==
    IF IsBlank(fd["name"]) THEN <<FieldError("name", "EmptyName")>>
    ELSE IF IsBlank(fd["email"]) THEN <<FieldError("email", "EmptyEmail")>>
    ELSE IF ~EmailPattern(fd["email"]) THEN <<FieldError("email", "InvalidEmail")>>
    ELSE IF IsBlank(fd["phone"]) THEN <<FieldError("phone", "EmptyPhone")>>
    ELSE IF IsBlank(fd["message"]) THEN <<FieldError("message", "EmptyMessage")>>
    ELSE <<>>

\* The value validateForm returns.
validateForm(fd) == ValidationError(fd) = <<>>

\* canSubmitAt with a strict comparison.
canSubmitAtStrict(last, t) ==
    IF last = 0 THEN TRUE ELSE t - last > COOLDOWN_PERIOD

\* canSubmit, evaluated at instant t with last-submission time last
canSubmitAt(last, t) ==
    IF last = 0 THEN TRUE ELSE t - last >= COOLDOWN_PERIOD

canSubmit == canSubmitAt(lastSubmissionTime, now)

\* The argument of submit(): the fields spread, then overwritten one by one,
\* plus the access key.
Payload(fd, key) ==
    [name |-> fd["name"], email |-> fd["email"], phone |-> fd["phone"],
     message |-> fd["message"], access_key |-> key]

\* A call of submit(): its argument and the instant at which it is made.
Call(fd, key, t) == [payload |-> Payload(fd, key), calledAt |-> t]

\* disabled={isSubmitting || !canSubmit()} of the submit button
SubmitButtonDisabled == isSubmitting \/ ~canSubmit

\* disabled={!canSubmit()} of the button of the success view
ResetButtonDisabled == ~canSubmit

----------------------------------------------------------------------------
(* The useWeb3Forms hook: submit() starts an asynchronous call that later   *)
(* resolves or rejects; the hook owns isSubmitting and isSuccess.           *)

HookStart(p) ==
    /\ pending' = pending (+) SetToBag({p})
    /\ isSubmitting' = TRUE
    /\ isSuccess' = FALSE

HookResolve(p) ==
    /\ pending' = pending (-) SetToBag({p})
    /\ isSubmitting' = FALSE
    /\ isSuccess' = TRUE

HookReject(p) ==
    /\ pending' = pending (-) SetToBag({p})
    /\ isSubmitting' = FALSE
    /\ isSuccess' = isSuccess

----------------------------------------------------------------------------
(* The effect on lastSubmissionTime: its cleanup clears the old interval,   *)
(* and a truthy timestamp starts a new one.                                 *)

\* No timer is active.
NoInterval == {}

\* The cleanup without clearInterval: the old timer is left running.
EffectCleanupLeaks == interval

\* The cleanup of the effect: clearInterval on the timer that the effect
\* started for the current lastSubmissionTime.
EffectCleanup == {h \in interval : h.since # lastSubmissionTime}

\* The timers after a render with the new value of lastSubmissionTime: the
\* effect runs only when the value changed.
EffectOnLastSubmissionTime(newLast) ==
    IF newLast = lastSubmissionTime THEN interval' = interval
    ELSE IF newLast # 0
         THEN interval' = EffectCleanup \cup
                            {[since |-> newLast, due |-> now + TICK_MS]}
         ELSE interval' = EffectCleanup

----------------------------------------------------------------------------
Init ==
    /\ formData = EmptyForm
    /\ lastSubmissionTime = 0
    /\ cooldownSeconds = 0
    /\ formError = <<>>
    /\ isSubmitting = FALSE
    /\ isSuccess = FALSE
    /\ apiKey \in {"", "KEY"}
    /\ pending = EmptyBag
    /\ interval = NoInterval
    /\ now = 100000
    /\ mounted = TRUE
    /\ succeededCallTime = 0

\* handleInputChange that clears whatever error is shown.
handleInputChangeClearsAnyError(field, value) ==
    /\ mounted
    /\ formData' = [formData EXCEPT ![field] = value]
    /\ formError' = <<>>
    /\ UNCHANGED <<lastSubmissionTime, cooldownSeconds, isSubmitting, isSuccess,
                   apiKey, pending, interval, now, mounted,
                   succeededCallTime>>

\* handleInputChange that leaves the error in place whatever field is edited.
handleInputChangeKeepsError(field, value) ==
    /\ mounted
    /\ formData' = [formData EXCEPT ![field] = value]
    /\ UNCHANGED <<lastSubmissionTime, cooldownSeconds, formError, isSubmitting,
                   isSuccess, apiKey, pending, interval, now, mounted,
                   succeededCallTime>>

\* handleInputChange(field, value)
handleInputChange(field, value) ==
    /\ mounted
    /\ formData' = [formData EXCEPT ![field] = value]
    /\ formError' = IF formError # <<>> /\ formError[1].field = field
                    THEN <<>> ELSE formError
    /\ UNCHANGED <<lastSubmissionTime, cooldownSeconds, isSubmitting, isSuccess,
                   apiKey, pending, interval, now, mounted,
                   succeededCallTime>>

\* SubmitCooldown placed after the validation: an invalid form gets its
\* field error instead.
SubmitCooldownAfterValidation ==
    /\ mounted
    /\ ~canSubmit
    /\ formError' = IF validateForm(formData)
                    THEN <<CooldownError(cooldownSeconds)>>
                    ELSE ValidationError(formData)
    /\ UNCHANGED <<formData, lastSubmissionTime, cooldownSeconds, isSubmitting,
                   isSuccess, apiKey, pending, interval, now, mounted,
                   succeededCallTime>>

\* handleSubmit, rejected by the cooldown
SubmitCooldown ==
    /\ mounted
    /\ ~canSubmit
    /\ formError' = <<CooldownError(cooldownSeconds)>>
    /\ UNCHANGED <<formData, lastSubmissionTime, cooldownSeconds, isSubmitting,
                   isSuccess, apiKey, pending, interval, now, mounted,
                   succeededCallTime>>

\* handleSubmit, stopped by validateForm
SubmitInvalid ==
    /\ mounted
    /\ canSubmit
    /\ ~validateForm(formData)
    /\ formError' = ValidationError(formData)
    /\ UNCHANGED <<formData, lastSubmissionTime, cooldownSeconds, isSubmitting,
                   isSuccess, apiKey, pending, interval, now, mounted,
                   succeededCallTime>>

\* SubmitNoKey without the test of the key: the call is made with an empty key.
SubmitNoKeyCallsAnyway ==
    /\ mounted
    /\ canSubmit
    /\ validateForm(formData)
    /\ apiKey = ""
    /\ BagCardinality(pending) < MaxPending
    /\ HookStart(Call(formData, apiKey, now))
    /\ UNCHANGED <<formData, lastSubmissionTime, cooldownSeconds, formError,
                   apiKey, interval, now, mounted,
                   succeededCallTime>>

\* handleSubmit, the key is missing: the throw is caught before any call
SubmitNoKey ==
    /\ mounted
    /\ canSubmit
    /\ validateForm(formData)
    /\ apiKey = ""
    /\ formError' = <<FailedError>>
    /\ UNCHANGED <<formData, lastSubmissionTime, cooldownSeconds, isSubmitting,
                   isSuccess, apiKey, pending, interval, now, mounted,
                   succeededCallTime>>

\* SubmitDispatch without the call of validateForm.
SubmitDispatchUnvalidated ==
    /\ mounted
    /\ canSubmit
    /\ apiKey # ""
    /\ BagCardinality(pending) < MaxPending
    /\ HookStart(Call(formData, apiKey, now))
    /\ UNCHANGED <<formData, lastSubmissionTime, cooldownSeconds, formError,
                   apiKey, interval, now, mounted,
                   succeededCallTime>>

\* handleSubmit up to the await: submit() is called with the payload
SubmitDispatch ==
    /\ mounted
    /\ canSubmit
    /\ validateForm(formData)
    /\ apiKey # ""
    /\ BagCardinality(pending) < MaxPending
    /\ HookStart(Call(formData, apiKey, now))
    /\ UNCHANGED <<formData, lastSubmissionTime, cooldownSeconds, formError,
                   apiKey, interval, now, mounted,
                   succeededCallTime>>

handleSubmit == SubmitCooldown \/ SubmitInvalid \/ SubmitNoKey \/ SubmitDispatch

\* SubmitResolved without the reset of the fields.
SubmitResolvedKeepsFields(p) ==
    /\ mounted
    /\ BagIn(p, pending)
    /\ HookResolve(p)
    /\ lastSubmissionTime' = now
    /\ formError' = <<>>
    /\ EffectOnLastSubmissionTime(now)
    /\ succeededCallTime' = p.calledAt
    /\ UNCHANGED <<formData, cooldownSeconds, apiKey, now, mounted>>

\* SubmitResolved that records the instant of the call instead of reading
\* the clock after the await.
SubmitResolvedAtCallTime(p) ==
    /\ mounted
    /\ BagIn(p, pending)
    /\ HookResolve(p)
    /\ lastSubmissionTime' = p.calledAt
    /\ formError' = <<>>
    /\ formData' = EmptyForm
    /\ EffectOnLastSubmissionTime(p.calledAt)
    /\ succeededCallTime' = p.calledAt
    /\ UNCHANGED <<cooldownSeconds, apiKey, now, mounted>>

\* SubmitResolved that resets the fields only when they still hold what was
\* sent: values edited while the call was pending survive the success.
SubmitResolvedKeepsEdits(p) ==
    /\ mounted
    /\ BagIn(p, pending)
    /\ HookResolve(p)
    /\ lastSubmissionTime' = now
    /\ formError' = <<>>
    /\ formData' = IF Payload(formData, apiKey) = p.payload
                    THEN EmptyForm ELSE formData
    /\ EffectOnLastSubmissionTime(now)
    /\ succeededCallTime' = p.calledAt
    /\ UNCHANGED <<cooldownSeconds, apiKey, now, mounted>>

\* handleSubmit after the await resolved
SubmitResolved(p) ==
    /\ mounted
    /\ BagIn(p, pending)
    /\ HookResolve(p)
    /\ lastSubmissionTime' = now
    /\ formError' = <<>>
    /\ formData' = EmptyForm
    /\ EffectOnLastSubmissionTime(now)
    /\ succeededCallTime' = p.calledAt
    /\ UNCHANGED <<cooldownSeconds, apiKey, now, mounted>>

\* SubmitRejected that also resets the fields, as the success path does.
SubmitRejectedClearsFields(p) ==
    /\ mounted
    /\ BagIn(p, pending)
    /\ HookReject(p)
    /\ formError' = <<FailedError>>
    /\ formData' = EmptyForm
    /\ UNCHANGED <<lastSubmissionTime, cooldownSeconds, apiKey, interval, now, mounted,
                   succeededCallTime>>

\* handleSubmit after the await rejected: the catch block
SubmitRejected(p) ==
    /\ mounted
    /\ BagIn(p, pending)
    /\ HookReject(p)
    /\ formError' = <<FailedError>>
    /\ UNCHANGED <<formData, lastSubmissionTime, cooldownSeconds, apiKey,
                   interval, now, mounted,
                   succeededCallTime>>

\* resetFormData without the test of canSubmit().
resetFormDataUnguarded == EmptyForm

\* resetForm: the field state and the error it leaves
resetFormData == IF canSubmit THEN EmptyForm ELSE formData

resetFormError == IF canSubmit THEN <<>> ELSE formError

resetForm ==
    /\ mounted
    /\ formData' = resetFormData
    /\ formError' = resetFormError
    /\ UNCHANGED <<lastSubmissionTime, cooldownSeconds, isSubmitting, isSuccess,
                   apiKey, pending, interval, now, mounted,
                   succeededCallTime>>

\* IntervalTick without clearInterval: the timer keeps running at zero.
IntervalTickNeverClears(h) ==
    /\ h \in interval
    /\ now >= h.due
    /\ cooldownSeconds' = IF mounted THEN Remaining(h.since, now)
                                     ELSE cooldownSeconds
    /\ interval' = (interval \ {h}) \cup
                        {[since |-> h.since, due |-> now + TICK_MS]}
    /\ UNCHANGED <<formData, lastSubmissionTime, formError, isSubmitting,
                   isSuccess, apiKey, pending, now, mounted,
                   succeededCallTime>>

\* The callback of setInterval for the timer h.  A state setter of an
\* unmounted component does nothing.
IntervalTick(h) ==
    /\ h \in interval
    /\ now >= h.due
    /\ LET remaining == Remaining(h.since, now) IN
        /\ cooldownSeconds' = IF mounted THEN remaining ELSE cooldownSeconds
        /\ interval' = IF remaining <= 0
                       THEN interval \ {h}
                       ELSE (interval \ {h}) \cup
                                {[since |-> h.since, due |-> now + TICK_MS]}
    /\ UNCHANGED <<formData, lastSubmissionTime, formError, isSubmitting,
                   isSuccess, apiKey, pending, now, mounted,
                   succeededCallTime>>

\* The component is unmounted: the cleanup of the effect runs and React
\* discards the component's state, written here as the initial values.
Unmount ==
    /\ mounted
    /\ mounted' = FALSE
    /\ interval' = EffectCleanup
    /\ formData' = EmptyForm
    /\ lastSubmissionTime' = 0
    /\ cooldownSeconds' = 0
    /\ formError' = <<>>
    /\ isSubmitting' = FALSE
    /\ isSuccess' = FALSE
    /\ succeededCallTime' = 0
    /\ UNCHANGED <<apiKey, pending, now>>

\* A call settles after the unmount: the continuation of handleSubmit runs,
\* its state setters do nothing.
SettledAfterUnmount(p) ==
    /\ ~mounted
    /\ BagIn(p, pending)
    /\ pending' = pending (-) SetToBag({p})
    /\ UNCHANGED <<formData, lastSubmissionTime, cooldownSeconds, formError,
                   isSubmitting, isSuccess, apiKey, interval, now, mounted,
                   succeededCallTime>>

\* Time passes.
AdvanceTime ==
    /\ \E t \in Times : t > now /\ now' = t
    /\ UNCHANGED <<formData, lastSubmissionTime, cooldownSeconds, formError,
                   isSubmitting, isSuccess, apiKey, pending, interval, mounted,
                   succeededCallTime>>

Next ==
    \/ \E f \in Fields : \E v \in FieldValues(f) : handleInputChange(f, v)
    \/ handleSubmit
    \/ \E p \in BagToSet(pending) : SubmitResolved(p)
    \/ \E p \in BagToSet(pending) : SubmitRejected(p)
    \/ resetForm
    \/ \E h \in interval : IntervalTick(h)
    \/ AdvanceTime
    \/ Unmount
    \/ \E p \in BagToSet(pending) : SettledAfterUnmount(p)

Spec == Init /\ [][Next]_vars

\* The last instant of the model.
LastInstant == CHOOSE t \in Times : \A u \in Times : u <= t

\* The mounted component under a clock that keeps advancing and timers that
\* keep firing.  A success is recorded only while a whole cooldown period
\* still fits before the last instant of the model.
NextLive ==
    \/ \E f \in Fields : \E v \in FieldValues(f) : handleInputChange(f, v)
    \/ handleSubmit
    \/ \E p \in BagToSet(pending) :
            now + COOLDOWN_PERIOD <= LastInstant /\ SubmitResolved(p)
    \/ \E p \in BagToSet(pending) : SubmitRejected(p)
    \/ resetForm
    \/ \E h \in interval : IntervalTick(h)
    \/ AdvanceTime

SpecLive ==
    /\ Init
    /\ [][NextLive]_vars
    /\ WF_vars(AdvanceTime)
    /\ WF_vars(\E h \in interval : IntervalTick(h))

\* The validation applied to every combination of the wider values: the form
\* holds any of them and handleSubmit is called on it.
InitValidate ==
    /\ formData \in [Fields -> AllValues]
    /\ lastSubmissionTime = 0
    /\ cooldownSeconds = 0
    /\ formError = <<>>
    /\ isSubmitting = FALSE
    /\ isSuccess = FALSE
    /\ apiKey \in {"", "KEY"}
    /\ pending = EmptyBag
    /\ interval = NoInterval
    /\ now = 100000
    /\ mounted = TRUE
    /\ succeededCallTime = 0

NextValidate == SubmitInvalid \/ SubmitNoKey \/ SubmitDispatch

SpecValidate == InitValidate /\ [][NextValidate]_vars

\* SubmissionStatus of the hook's two flags
Status ==
    IF isSubmitting THEN "Submitting"
    ELSE IF isSuccess THEN "Succeeded" ELSE "Idle"

----------------------------------------------------------------------------
(* Properties *)

\* A string that is empty once its leading and trailing whitespace is removed.
AllWhitespace(s) == \A i \in 1..Len(s) : s[i] \in Whitespace

\* A step in which a call of the transport starts.
TransportInvoked == BagCardinality(pending') > BagCardinality(pending)

\* A step of the continuation of handleSubmit after a successful call.
SuccessStep == \E p \in BagToSet(pending) : SubmitResolved(p)

\* A step of the catch block after a failed call.
FailureStep == \E p \in BagToSet(pending) : SubmitRejected(p)

\* C1: the transport is invoked only by a handleSubmit call made when the
\* cooldown has elapsed and the validation passes, and it receives exactly
\* the four field values of that moment, each non-empty after trimming and
\* the e-mail matching the pattern, plus the access key.
C1_DispatchOnlyValidAndCooled ==
    [][TransportInvoked =>
        /\ handleSubmit
        /\ lastSubmissionTime = 0 \/ now - lastSubmissionTime >= 60000
        /\ \A f \in Fields : ~AllWhitespace(formData[f])
        /\ EmailPattern(formData["email"])
        /\ ValidationError(formData) = <<>>
        /\ apiKey # ""
        /\ \E c \in BagToSet(pending') :
            /\ pending' = pending (+) SetToBag({c})
            /\ c.payload = [name |-> formData["name"],
                            email |-> formData["email"],
                            phone |-> formData["phone"],
                            message |-> formData["message"],
                            access_key |-> apiKey]
    ]_vars

\* A call is in flight with a payload of typed values and the key.
C1_Witness ==
    \E c \in BagToSet(pending) :
        /\ c.payload.name = FOO
        /\ c.payload.email = GOOD_EMAIL
        /\ c.payload.message = BAR
        /\ c.payload.access_key = "KEY"

\* C2: at most one submission is in flight at any time.
C2_AtMostOneInFlight == BagCardinality(pending) <= 1

\* C3: once a submission has succeeded, no later submission is dispatched or
\* succeeds before 60000 ms have elapsed since that success.
C3_SuccessesSeparatedByCooldown ==
    [][(SuccessStep \/ TransportInvoked) =>
        (lastSubmissionTime = 0 \/ now - lastSubmissionTime >= 60000)]_vars

\* The five rules in their order: whether each fails, its field, its message.
RuleFails(fd) ==
    <<AllWhitespace(fd["name"]),
      AllWhitespace(fd["email"]),
      ~EmailPattern(fd["email"]),
      AllWhitespace(fd["phone"]),
      AllWhitespace(fd["message"])>>

RuleField == <<"name", "email", "email", "phone", "message">>

RuleMessage ==
    <<"EmptyName", "EmptyEmail", "InvalidEmail", "EmptyPhone", "EmptyMessage">>

\* The index of the first failing rule, 0 when all five pass.
FirstFailing(fd) ==
    IF \E i \in 1..5 : RuleFails(fd)[i]
    THEN CHOOSE i \in 1..5 :
            /\ RuleFails(fd)[i]
            /\ \A j \in 1..(i - 1) : ~RuleFails(fd)[j]
    ELSE 0

\* C4: validateForm reports exactly the first failing rule in the order name
\* empty, email empty, email not matching, phone empty, message empty, with an
\* error tagged to that rule's field, and returns true iff all five rules
\* pass; the error a handleSubmit call leaves is that one; "foo" gets an
\* email-tagged error whatever phone and message hold; "a@b.co" matches.
C4_ValidateFirstFailingRule ==
    LET k == FirstFailing(formData) IN
    /\ validateForm(formData) <=> (k = 0)
    /\ k # 0 =>
        ValidationError(formData) =
            <<[field |-> RuleField[k], message |-> <<RuleMessage[k]>>]>>
    /\ (formError # <<>> /\ formError[1].field # "undefined") =>
        /\ k # 0
        /\ formError[1].field = RuleField[k]
        /\ formError[1].message = <<RuleMessage[k]>>
    /\ (pending # EmptyBag \/ formError = <<FailedError>>) => k = 0
    /\ (formData["email"] = FOO /\ ~AllWhitespace(formData["name"])) =>
        /\ ~validateForm(formData)
        /\ ValidationError(formData)[1].field = "email"
    /\ EmailPattern(GOOD_EMAIL)
    /\ ~EmailPattern(FOO)

\* handleSubmit has flagged the e-mail "foo" although phone and message are
\* empty too.
C4_Witness ==
    /\ formData["email"] = FOO
    /\ formData["phone"] = EMPTY
    /\ formData["message"] = BLANK
    /\ formError = <<FieldError("email", "InvalidEmail")>>

\* C5: when the transport resolves with success, all four fields are the
\* empty string, there is no error, the status is Succeeded, and the
\* timestamp starts a new cooldown window at once: canSubmit() is false.
C5_SuccessClearsAndStartsCooldown ==
    [][SuccessStep =>
        /\ \A f \in Fields : formData'[f] = <<>>
        /\ formError' = <<>>
        /\ Status' = "Succeeded"
        /\ lastSubmissionTime' = now'
        /\ lastSubmissionTime' # 0
        /\ ~canSubmit'
    ]_vars

\* A success has just been recorded.
C5_Witness ==
    /\ isSuccess
    /\ lastSubmissionTime = now
    /\ formData = EmptyForm
    /\ formError = <<>>
    /\ ~canSubmit

\* C6: when the transport call fails, the generic failure error is set and
\* nothing else changes: the status does not become Succeeded, the fields
\* keep their values, no timestamp is recorded, canSubmit() keeps its value,
\* and no call is started other than by a later handleSubmit.
C6_FailureOnlySetsError ==
    [][/\ FailureStep =>
            /\ formError' = <<[field |-> "undefined",
                               message |-> <<"SubmissionFailed">>]>>
            /\ formData' = formData
            /\ lastSubmissionTime' = lastSubmissionTime
            /\ cooldownSeconds' = cooldownSeconds
            /\ canSubmit' = canSubmit
            /\ isSuccess' = isSuccess
            /\ ~isSubmitting'
            /\ BagCardinality(pending') = BagCardinality(pending) - 1
       /\ TransportInvoked => handleSubmit
    ]_vars

\* A call has failed: the key is present, the fields are still filled in.
C6_Witness ==
    /\ apiKey # ""
    /\ formError = <<FailedError>>
    /\ validateForm(formData)
    /\ pending = EmptyBag
    /\ lastSubmissionTime = 0
    /\ Status = "Idle"

\* C7: without the credential, a handleSubmit call that passes the cooldown
\* check and the validation sets an error and invokes no transport: the
\* status stays Idle, the fields are unchanged, no timestamp is recorded.
C7_MissingCredentialFailsAtOnce ==
    /\ [](apiKey = "" =>
            /\ pending = EmptyBag
            /\ Status = "Idle"
            /\ lastSubmissionTime = 0)
    /\ [][(apiKey = "" /\ handleSubmit /\ canSubmit /\ validateForm(formData)) =>
            /\ formError' # <<>>
            /\ formError' = <<FailedError>>
            /\ formData' = formData
            /\ pending' = pending
            /\ Status' = "Idle"
            /\ lastSubmissionTime' = lastSubmissionTime
       ]_vars

\* Without the key a valid form was submitted and the failure is shown.
C7_Witness ==
    /\ apiKey = ""
    /\ validateForm(formData)
    /\ formError = <<FailedError>>

\* C8: canSubmit() is true exactly when there is no timestamp or at least
\* 60000 ms have passed since it: false up to T+59999 (at T+59000 the
\* recomputed remaining time is 1 s), true from T+60000 on.
C8_CanSubmitAfterCooldown ==
    /\ canSubmit <=>
        (lastSubmissionTime = 0 \/ now - lastSubmissionTime >= 60000)
    /\ (lastSubmissionTime # 0 /\ now - lastSubmissionTime <= 59999) => ~canSubmit
    /\ (lastSubmissionTime # 0 /\ now - lastSubmissionTime = 59000) =>
        Remaining(lastSubmissionTime, now) = 1
    /\ (lastSubmissionTime # 0 /\ now - lastSubmissionTime >= 60000) =>
        /\ canSubmit
        /\ Remaining(lastSubmissionTime, now) = 0

\* Exactly 60000 ms after a recorded success.
C8_Witness ==
    /\ lastSubmissionTime # 0
    /\ now - lastSubmissionTime = 60000
    /\ canSubmit

\* C9: after a success, once canSubmit() is true, resetForm clears the fields
\* and the error and returns the status from Succeeded to Idle.
C9_ResetReturnsToIdle ==
    [][(resetForm /\ Status = "Succeeded" /\ canSubmit) =>
        /\ formData' = EmptyForm
        /\ formError' = <<>>
        /\ Status' = "Idle"
    ]_vars

\* C10: resetForm called while canSubmit() is false changes nothing: fields,
\* error, status, timestamp and remaining seconds stay as they are.
C10_ResetNoOpDuringCooldown ==
    /\ [](~canSubmit =>
            /\ resetFormData = formData
            /\ resetFormError = formError)
    /\ [][(resetForm /\ ~canSubmit) =>
            UNCHANGED <<formData, formError, isSubmitting, isSuccess,
                        lastSubmissionTime, cooldownSeconds>>
       ]_vars

\* The cooldown runs while the form holds values and an error a reset would
\* clear.
C10_Witness ==
    /\ ~canSubmit
    /\ formData # EmptyForm
    /\ formError # <<>>
    /\ Status = "Succeeded"

\* C11: handleInputChange(f, v) sets field f to v and leaves the other three
\* fields, the status, the timestamp and the remaining seconds unchanged; it
\* clears the error iff the error is tagged to f, and otherwise leaves the
\* error as it is (no re-validation).
C11_EditClearsOnlyOwnError ==
    [][\A f \in Fields : \A v \in FieldValues(f) :
        handleInputChange(f, v) =>
            /\ formData'[f] = v
            /\ \A g \in Fields \ {f} : formData'[g] = formData[g]
            /\ isSubmitting' = isSubmitting
            /\ isSuccess' = isSuccess
            /\ lastSubmissionTime' = lastSubmissionTime
            /\ cooldownSeconds' = cooldownSeconds
            /\ pending' = pending
            /\ (formError # <<>> /\ formError[1].field = f) => formError' = <<>>
            /\ (formError # <<>> /\ formError[1].field # f) => formError' = formError
            /\ formError = <<>> => formError' = <<>>
    ]_vars

\* The error tagged to the phone is still shown although the e-mail, valid
\* when the error was set, has been edited to an invalid value since.
C11_Witness ==
    /\ formError = <<FieldError("phone", "EmptyPhone")>>
    /\ formData["email"] = FOO
    /\ formData["phone"] = EMPTY

\* C12: handleSubmit called while canSubmit() is false sets the untagged
\* cooldown error and stops: no field-tagged error even if the fields are
\* invalid, no transport call, fields, status and timestamp unchanged.
C12_CooldownRejectsBeforeValidation ==
    [][(handleSubmit /\ lastSubmissionTime # 0
            /\ now - lastSubmissionTime < 60000) =>
        /\ formError' # <<>>
        /\ formError'[1].field = "undefined"
        /\ formError'[1].message[1] = "CooldownActive"
        /\ formData' = formData
        /\ pending' = pending
        /\ isSubmitting' = isSubmitting
        /\ isSuccess' = isSuccess
        /\ lastSubmissionTime' = lastSubmissionTime
        /\ cooldownSeconds' = cooldownSeconds
    ]_vars

\* The cooldown error is shown over a form that would not pass validation.
C12_Witness ==
    /\ formError # <<>>
    /\ formError[1].message[1] = "CooldownActive"
    /\ ~validateForm(formData)
    /\ ~canSubmit

\* A step in which the callback of a timer runs.
TickStep == \E h \in interval : IntervalTick(h)

\* C13: the cooldown tick never leaks: at most one timer is active, also
\* over successive successes, and it is the one of the current timestamp; no
\* timer is left and no tick fires once the component is unmounted; a tick
\* that computes remaining = 0 clears its timer, and a timer only appears
\* again when a new timestamp is recorded.
C13_TickNeverLeaks ==
    /\ [](/\ Cardinality(interval) <= 1
          /\ \A h \in interval : h.since = lastSubmissionTime /\ h.since # 0
          /\ ~mounted => interval = {})
    /\ [][/\ TickStep => mounted
          /\ \A h \in interval :
                (IntervalTick(h) /\ Remaining(h.since, now) = 0) =>
                    interval' = {}
          /\ (interval = {} /\ interval' # {}) =>
                /\ lastSubmissionTime' # lastSubmissionTime
                /\ lastSubmissionTime' = now
       ]_vars

\* The timer of a new window has replaced the one of an earlier window: it
\* has not ticked yet and the counter still shows the earlier window's value.
C13_Witness ==
    /\ Cardinality(interval) = 1
    /\ \E h \in interval : h.since = lastSubmissionTime /\ h.due = h.since + TICK_MS
    /\ cooldownSeconds > 0

\* C14: after a success, with time advancing and the timer firing, the
\* remaining seconds stay an integer in 0..60, do not increase from one tick
\* to the next of the same window, and reach 0, where the timer is cleared.
C14_CountdownReachesZero ==
    /\ [](cooldownSeconds \in 0..60)
    /\ [][\A h \in interval : IntervalTick(h) =>
            /\ h.due > h.since + TICK_MS => cooldownSeconds' <= cooldownSeconds
            /\ (cooldownSeconds' = 0) <=> (interval' = {})
         ]_vars
    /\ (interval # {}) ~> (interval = {} /\ cooldownSeconds = 0)

\* The countdown of a window has come down to its last second.
C14_Witness ==
    /\ cooldownSeconds = 1
    /\ \E h \in interval : now - h.since = 59999 /\ h.due = now + TICK_MS

\* C15 as stated: when a submission succeeds, the recorded cooldown timestamp
\* is the instant at which handleSubmit was called, however long the transport
\* took to resolve.
C15_TimestampIsCallTime ==
    [][\A p \in BagToSet(pending) :
            SubmitResolved(p) => lastSubmissionTime' = p.calledAt]_vars

\* C15, amended: when a submission succeeds, the recorded cooldown timestamp
\* is the instant at which the call of the transport resolved, never earlier
\* than the instant of the handleSubmit call and equal to it only when the
\* transport resolves at once; the 60-second window is measured from the
\* resolution, so canSubmit() can still be false 60 seconds after the call.
C15_TimestampIsResolveTime ==
    /\ [][\A p \in BagToSet(pending) :
            SubmitResolved(p) =>
                /\ lastSubmissionTime' = now
                /\ p.calledAt <= lastSubmissionTime'
                /\ ~canSubmit'
         ]_vars
    /\ [](succeededCallTime <= lastSubmissionTime)
    /\ [](lastSubmissionTime # 0 =>
            (canSubmit <=> now - lastSubmissionTime >= COOLDOWN_PERIOD))

\* A call that took time to resolve has succeeded, 60 seconds have passed
\* since the call, and the cooldown is still running.
C15_Witness ==
    /\ succeededCallTime # 0
    /\ succeededCallTime < lastSubmissionTime
    /\ now - succeededCallTime >= COOLDOWN_PERIOD
    /\ ~canSubmit

\* C16: whenever handleSubmit is rejected by the cooldown, the number carried
\* by the CooldownActive error is the real remaining time
\* ceil((60000 - elapsed) / 1000), hence at least 1, never 0 and never a
\* stale value of the displayed counter.
C16_CooldownErrorCarriesRealRemaining ==
    [][SubmitCooldown =>
            /\ formError' = <<CooldownError(Remaining(lastSubmissionTime, now))>>
            /\ formError'[1].message[2] >= 1
      ]_vars

\* C17: in every reachable state an error tagged to a field f is one of the
\* five validation errors, the current value of f still fails the rule that
\* produced it, and no step changes f while it leaves that error in place.
C17_TaggedErrorStillFails ==
    /\ [](formError # <<>> /\ formError[1].field \in Fields =>
            \E k \in 1..5 :
                /\ formError = <<FieldError(RuleField[k], RuleMessage[k])>>
                /\ RuleFails(formData)[k])
    /\ [][\A f \in Fields :
            (formError # <<>> /\ formError[1].field = f /\ formError' = formError)
                => formData'[f] = formData[f]
         ]_vars

\* The e-mail error is still shown after the name was edited to a blank: the
\* error outlived an edit of another field and its own field is unchanged.
C17_Witness ==
    /\ formError = <<FieldError("email", "InvalidEmail")>>
    /\ formData["email"] = FOO
    /\ formData["name"] = BLANK

\* C18: an edit made while a call is pending does not change what was sent:
\* a call enters the pending set only by a handleSubmit step, carrying the
\* field values of that instant, and no step alters a pending call; when the
\* call succeeds all four fields become empty whatever was typed meanwhile,
\* and when it fails the fields keep their current, edited values.
C18_EditsDoNotAlterPendingCall ==
    /\ [][\A c \in BagToSet(pending') :
            CopiesIn(c, pending') > CopiesIn(c, pending) =>
                /\ c = Call(formData, apiKey, now)
                /\ pending' = pending (+) SetToBag({c})
                /\ formData' = formData
         ]_vars
    /\ [][formData' # formData /\ ~SuccessStep /\ ~Unmount => pending' = pending]_vars
    /\ [][\A p \in BagToSet(pending) :
            SubmitResolved(p) =>
                /\ formData' = EmptyForm
                /\ pending' = pending (-) SetToBag({p})
         ]_vars
    /\ [][\A p \in BagToSet(pending) :
            SubmitRejected(p) =>
                /\ formData' = formData
                /\ pending' = pending (-) SetToBag({p})
         ]_vars

\* A call is pending and the form no longer holds what was sent: the message
\* was retyped and the name blanked after the call.
C18_Witness ==
    /\ mounted
    /\ isSubmitting
    /\ formData["name"] = BLANK
    /\ formData["message"] = BAR
    /\ \E c \in BagToSet(pending) :
            c.payload.name = FOO /\ c.payload.message = FOO

====
